---------------------------- MODULE Spec2Model ----------------------------
(***************************************************************************)
(* A model of gen.py, the generator of the material-osd font atlas.        *)
(*                                                                         *)
(* Three parts of the program are modelled, each with a specification:     *)
(*   SpecPlace    the index -> pixel placement of a tile (main's loop       *)
(*                body), for every tile index;                              *)
(*   Spec         main(): the four bulk pastes, the loop over the catalog   *)
(*                ICONS, the preview and the two saves;                     *)
(*   SpecOutline  apply_outline(): threshold, distance transform, glow      *)
(*                layer and alpha composite, run twice on a small image.    *)
(***************************************************************************)
EXTENDS Integers, Sequences, FiniteSets, TLC

VARIABLES
    \* --- placement (SpecPlace)
    index,        \* the tile index given to the placement
    box,          \* the rectangle pasted for it, <<x0, y0, x1, y1>>, or <<>>
    \* --- main() (Spec)
    pc,           \* position in main()
    tmplAlpha,    \* alpha of the pixels of betaflight_template.png
    out,          \* main's `out`: the atlas image
    icons,        \* the entries of ICONS the loop has reached, with their images
    logo_img,     \* main's `logo_img`, the value of get_logo_image()
    preview,      \* main's `preview`
    written,      \* the files saved so far, in order
    \* --- apply_outline (SpecOutline)
    opc,          \* position in the outline chain
    img,          \* the image given to apply_outline in the current pass
    mask,         \* its thresholded alpha channel (euclidean_distance_transform)
    euclid,       \* its distance field
    outline,      \* the glow layer, attenuated and converted to RGBA
    passes        \* one record per finished pass of apply_outline

placeVars == <<index, box>>
buildVars == <<pc, tmplAlpha, out, icons, logo_img, preview, written>>
outlineVars == <<opc, img, mask, euclid, outline, passes>>
vars == <<placeVars, buildVars, outlineVars>>

(***************************************************************************)
(* Program constants.                                                      *)
(***************************************************************************)
TILE_WIDTH == 12 * 3
TILE_HEIGHT == 18 * 3
TILES_PER_ROW == 16
\* len(CHARS): the characters from " " (32) to "_" (95)
CHARS_LEN == (95 + 1) - 32
\* math.ceil(len(CHARS) / TILES_PER_ROW)
TILE_ROW_COUNT == (CHARS_LEN + TILES_PER_ROW - 1) \div TILES_PER_ROW

(***************************************************************************)
(* Bounds of the model.                                                    *)
(***************************************************************************)
\* the largest tile index given to the placement (a 16 x 16 tile atlas)
MaxIndex == 255
\* the longest catalog main() is run on
MaxIcons == 2
\* the size of the images given to apply_outline
ImgW == 5
ImgH == 3

(***************************************************************************)
(* Tile placement: main(), lines 774-777.                                  *)
(***************************************************************************)
TileXTimesHeight(i) == (i % TILES_PER_ROW) * TILE_HEIGHT

TileX(i) == (i % TILES_PER_ROW) * TILE_WIDTH

TileYTimesWidth(i) == (i \div TILES_PER_ROW) * TILE_WIDTH

TileY(i) == (i \div TILES_PER_ROW) * TILE_HEIGHT

\* the rectangle a w x h image pasted at (x, y) covers: x0 <= px < x1, y0 <= py < y1
BoxAt(x, y, w, h) == <<x, y, x + w, y + h>>

\* the rectangle out.paste(icon_img, (tile_x, tile_y)) covers for a tile image
TileBox(i) == BoxAt(TileX(i), TileY(i), TILE_WIDTH, TILE_HEIGHT)

InBox(b, x, y) == b[1] <= x /\ x < b[3] /\ b[2] <= y /\ y < b[4]

\* two rectangles share a pixel
Overlap(a, b) == a[1] < b[3] /\ b[1] < a[3] /\ a[2] < b[4] /\ b[2] < a[4]

(***************************************************************************)
(* apply_outline: the images are ImgW x ImgH, a pixel of an RGBA image is  *)
(* <<r, g, b, a>> and a pixel of an L image is a number, all in 0..255.    *)
(***************************************************************************)
Pts == (0 .. ImgW - 1) \X (0 .. ImgH - 1)

Alpha(px) == px[4]

\* img.getchannel("A")
GetChannelA(im) == [p \in Pts |-> Alpha(im[p])]

THRESHOLD == 100

ThresholdInclusive(chan) == [p \in Pts |-> IF chan[p] >= THRESHOLD THEN 255 ELSE 0]

\* Image.eval(img, lambda x: 255 if x > 100 else 0)
Threshold(chan) == [p \in Pts |-> IF chan[p] > THRESHOLD THEN 255 ELSE 0]

\* the kernel with no corner trimmed
SQUARE_PATTERN_9x9 ==
    << <<1, 1, 1, 1, 1, 1, 1, 1, 1>>,
       <<1, 1, 1, 1, 1, 1, 1, 1, 1>>,
       <<1, 1, 1, 1, 1, 1, 1, 1, 1>>,
       <<1, 1, 1, 1, 1, 1, 1, 1, 1>>,
       <<1, 1, 1, 1, 1, 1, 1, 1, 1>>,
       <<1, 1, 1, 1, 1, 1, 1, 1, 1>>,
       <<1, 1, 1, 1, 1, 1, 1, 1, 1>>,
       <<1, 1, 1, 1, 1, 1, 1, 1, 1>>,
       <<1, 1, 1, 1, 1, 1, 1, 1, 1>> >>

OCTAGON_PATTERN_9x9 ==
    << <<0, 0, 0, 1, 1, 1, 0, 0, 0>>,
       <<0, 0, 1, 1, 1, 1, 1, 0, 0>>,
       <<0, 1, 1, 1, 1, 1, 1, 1, 0>>,
       <<1, 1, 1, 1, 1, 1, 1, 1, 1>>,
       <<1, 1, 1, 1, 1, 1, 1, 1, 1>>,
       <<1, 1, 1, 1, 1, 1, 1, 1, 1>>,
       <<0, 1, 1, 1, 1, 1, 1, 1, 0>>,
       <<0, 0, 1, 1, 1, 1, 1, 0, 0>>,
       <<0, 0, 0, 1, 1, 1, 0, 0, 0>> >>

\* min_dist = None
NONE == -1

SENTINEL == 255

\* the inner loop over x2 of one kernel row y2, carrying min_dist; a `continue`
\* is a step that leaves min_dist alone
RECURSIVE ScanColumns(_, _, _, _, _, _)
ScanColumns(m, x, y, y2, x2, min_dist) ==
    LET pixel_x == x + x2 - 4
        pixel_y == y + y2 - 4
        dist == (x2 - 4) * (x2 - 4) + (y2 - 4) * (y2 - 4)
    IN  IF x2 = Len(OCTAGON_PATTERN_9x9) THEN min_dist
        ELSE IF OCTAGON_PATTERN_9x9[y2 + 1][x2 + 1] = 0
            THEN ScanColumns(m, x, y, y2, x2 + 1, min_dist)
        ELSE IF pixel_x < 0 \/ pixel_x >= ImgW
            THEN ScanColumns(m, x, y, y2, x2 + 1, min_dist)
        ELSE IF pixel_y < 0 \/ pixel_y >= ImgH
            THEN ScanColumns(m, x, y, y2, x2 + 1, min_dist)
        ELSE IF m[<<pixel_x, pixel_y>>] = 0
            THEN ScanColumns(m, x, y, y2, x2 + 1, min_dist)
        ELSE IF min_dist = NONE \/ dist < min_dist
            THEN ScanColumns(m, x, y, y2, x2 + 1, dist)
        ELSE ScanColumns(m, x, y, y2, x2 + 1, min_dist)

\* the outer loop over y2
RECURSIVE ScanRows(_, _, _, _, _)
ScanRows(m, x, y, y2, min_dist) ==
    LET after_row == ScanColumns(m, x, y, y2, 0, min_dist)
    IN  IF y2 = Len(OCTAGON_PATTERN_9x9) THEN min_dist
        \* both branches are the same call: the test computes the row's result
        \* before the next row is entered
        ELSE IF after_row = NONE THEN ScanRows(m, x, y, y2 + 1, NONE)
        ELSE ScanRows(m, x, y, y2 + 1, after_row)

TruthyNotNone(min_dist) == min_dist # NONE

\* `if min_dist:` a Python int is true when it is not 0, None is false
Truthy(min_dist) == min_dist # NONE /\ min_dist # 0

\* the value written to ed_img_px[x, y]
FieldValue(m, x, y) ==
    LET min_dist == ScanRows(m, x, y, 0, NONE)
    IN  IF Truthy(min_dist) THEN min_dist ELSE SENTINEL

\* the distance field of a thresholded alpha channel
DistanceField(m) == [p \in Pts |-> FieldValue(m, p[1], p[2])]

euclidean_distance_transform(chan) == DistanceField(Threshold(chan))

RADIUS == 3

\* the least k >= lo with k * k >= n
RECURSIVE CeilSqrtFrom(_, _)
CeilSqrtFrom(n, lo) == IF lo * lo >= n THEN lo ELSE CeilSqrtFrom(n, lo + 1)

\* the same value rounded to the nearest integer: the integer part of
\* (2 * 255 * (radius + 1) + 1 - 2 * 255 * sqrt(d)) / 2, the search for
\* 2 * 255 * sqrt(d) starting just below twice that for 255 * sqrt(d)
FalloffRounded(d) ==
    LET c == CeilSqrtFrom(255 * 255 * d, 255 * RADIUS)
    IN  (2 * 255 * (RADIUS + 1) + 1
            - CeilSqrtFrom(4 * 255 * 255 * d, 2 * c - 2)) \div 2

\* int((1 - (math.sqrt(d) - radius)) * 255) for radius*radius < d: the integer
\* part of 255 * (radius + 1) - 255 * sqrt(d)
Falloff(d) == 255 * (RADIUS + 1) - CeilSqrtFrom(255 * 255 * d, 255 * RADIUS)

\* the value of outline_px[x, y] for the distance-field value d (0 where the
\* loop leaves the new image untouched)
OutlineValue(d) ==
    LET radius2 == RADIUS * RADIUS
    IN  IF d = SENTINEL THEN 0
        ELSE IF d <= radius2 THEN 255
        ELSE IF d < (RADIUS + 1) * (RADIUS + 1) THEN Falloff(d)
        ELSE 0

\* outline_px when the loop over the pixels is done, before Image.eval
OutlinePx(field) == [p \in Pts |-> OutlineValue(field[p])]

AttenuateNot(v) == v

\* Image.eval(outline, lambda x: x * 0.33): the lookup table is rounded to integers
Attenuate(v) == (v * 33 + 50) \div 100

\* Image.merge("LA", (black, attenuated outline)).convert("RGBA")
GlowLayer(field) == [p \in Pts |-> <<0, 0, 0, Attenuate(OutlineValue(field[p]))>>]

\* SHIFTFORDIV255 on UINT32 operands; no operand here reaches 2^31
ShiftForDiv255(a) == ((a \div 256) + a) \div 256

ChannelOver(s, d, coef1, coef2) ==
    ShiftForDiv255(s * coef1 + d * coef2 + 128 * 128) \div 128

\* one pixel of Image.alpha_composite: src over dst, 8-bit channels, Pillow's
\* integer arithmetic; a fully transparent src pixel yields the dst pixel
CompositePixel(dst, src) ==
    IF Alpha(src) = 0 THEN dst
    ELSE LET blend == Alpha(dst) * (255 - Alpha(src))
             outa255 == Alpha(src) * 255 + blend
             coef1 == (Alpha(src) * 255 * 255 * 128) \div outa255
             coef2 == 255 * 128 - coef1
         IN  << ChannelOver(src[1], dst[1], coef1, coef2),
                ChannelOver(src[2], dst[2], coef1, coef2),
                ChannelOver(src[3], dst[3], coef1, coef2),
                ShiftForDiv255(outa255 + 128) >>

\* outline.alpha_composite(img): img over the glow layer
AlphaComposite(glow, im) == [p \in Pts |-> CompositePixel(glow[p], im[p])]

add_outline_via_euclidean_distance_transform(im, field) ==
    AlphaComposite(GlowLayer(field), im)

apply_outline(im) ==
    add_outline_via_euclidean_distance_transform(
        im, euclidean_distance_transform(GetChannelA(im)))

(***************************************************************************)
(* The images apply_outline is run on: a background pixel value everywhere *)
(* but at two marked pixels.                                               *)
(***************************************************************************)
Blank == <<0, 0, 0, 0>>
ClearWhite == <<255, 255, 255, 0>>
FaintWhite == <<255, 255, 255, 100>>
FaintInk == <<200, 100, 50, 101>>
White == <<255, 255, 255, 255>>

\* an image drawn on a new transparent image, an image left by a pasted LA icon
\* (white under alpha 0), and one with faint pixels at the threshold
BlankImage == [p \in Pts |-> Blank]
StripedImage == [p \in Pts |-> IF p[1] % 2 = 0 THEN ClearWhite ELSE Blank]
FaintImage == [p \in Pts |-> IF (p[1] + p[2]) % 2 = 0 THEN FaintWhite ELSE ClearWhite]

Backgrounds == {BlankImage, StripedImage, FaintImage}
Marks == {FaintInk, White}
NoMark == <<>>

Mark(im, p, v) == IF v = NoMark THEN im ELSE [im EXCEPT ![p] = v]

InputImages ==
    { Mark(Mark(bg, p1, v1), p2, v2) :
        bg \in Backgrounds, p1 \in Pts, v1 \in Marks \cup {NoMark},
        p2 \in Pts, v2 \in Marks \cup {NoMark} }

IdlePlace == index = 0 /\ box = <<>>

IdleBuild ==
    /\ pc = "idle"
    /\ tmplAlpha = 0
    /\ out = <<>>
    /\ icons = <<>>
    /\ logo_img = <<>>
    /\ preview = <<>>
    /\ written = <<>>

IdleOutline ==
    /\ opc = "idle"
    /\ img = <<>>
    /\ mask = <<>>
    /\ euclid = <<>>
    /\ outline = <<>>
    /\ passes = <<>>

(***************************************************************************)
(* SpecPlace: the placement of one tile, for every tile index.             *)
(***************************************************************************)
InitPlace ==
    /\ index \in 0 .. MaxIndex
    /\ box = <<>>
    /\ IdleBuild
    /\ IdleOutline

\* tile_x, tile_y and the paste of a tile image there
Place ==
    /\ box = <<>>
    /\ box' = TileBox(index)
    /\ UNCHANGED <<index, buildVars, outlineVars>>

NextPlace == Place

SpecPlace == InitPlace /\ [][NextPlace]_vars

(***************************************************************************)
(* SpecOutline: apply_outline, run on an input image and then on its own   *)
(* output.                                                                 *)
(***************************************************************************)
InitOutline ==
    /\ opc = "image"
    /\ img \in InputImages
    /\ mask = <<>>
    /\ euclid = <<>>
    /\ outline = <<>>
    /\ passes = <<>>
    /\ IdlePlace
    /\ IdleBuild

\* euclid = euclidean_distance_transform(img.getchannel("A"))
DistanceTransform ==
    /\ opc = "image"
    /\ mask' = Threshold(GetChannelA(img))
    /\ euclid' = DistanceField(mask')
    /\ opc' = "euclid"
    /\ UNCHANGED <<img, outline, passes, placeVars, buildVars>>

\* img = add_outline_via_euclidean_distance_transform(img, euclid); the result
\* of the first pass is given to apply_outline again
AddOutline ==
    /\ opc = "euclid"
    /\ LET glow == GlowLayer(euclid)
           res == AlphaComposite(glow, img)
       IN  /\ outline' = glow
           /\ img' = res
           /\ passes' = Append(passes,
                  [img |-> img, mask |-> mask, euclid |-> euclid,
                   outline_px |-> OutlinePx(euclid),
                   outline |-> glow, out |-> res])
    /\ opc' = IF Len(passes) = 0 THEN "image" ELSE "done"
    /\ UNCHANGED <<mask, euclid, placeVars, buildVars>>

NextOutline == DistanceTransform \/ AddOutline

SpecOutline == InitOutline /\ [][NextOutline]_vars

(***************************************************************************)
(* main(): images.  An image of main() is the record of how it was made:   *)
(* its size, the pixels it was created or rendered with (base) and the     *)
(* pastes made into it since, in order.  Pixel reads a pixel of it.  A     *)
(* pixel is <<name, k, x, y, a>>: pixel (x, y) of rendering k of `name`,   *)
(* with alpha a; rasterised content is sampled with alpha 0 or 255.        *)
(***************************************************************************)
\* Image.new("RGBA", (w, h), (0, 0, 0, 0))
NewImage(w, h) ==
    [w |-> w, h |-> h, base |-> [name |-> "new", k |-> 0, a |-> 0], pastes |-> <<>>]

\* an image that was loaded or drawn: its pixels are its own
Rendered(name, k, w, h, a) ==
    [w |-> w, h |-> h, base |-> [name |-> name, k |-> k, a |-> a], pastes |-> <<>>]

PasteMasked(im, src, x, y) ==
    [im EXCEPT !.pastes = Append(@, [x |-> x, y |-> y, img |-> src, mask |-> TRUE])]

PasteUnder(im, src, x, y) ==
    [im EXCEPT !.pastes = <<[x |-> x, y |-> y, img |-> src, mask |-> FALSE]>> \o @]

\* im.paste(src, (x, y)): every pixel of the box is replaced
Paste(im, src, x, y) ==
    [im EXCEPT !.pastes = Append(@, [x |-> x, y |-> y, img |-> src, mask |-> FALSE])]

\* im.paste(src, (x, y), src): src's alpha is the mask
PasteWithMask(im, src, x, y) ==
    [im EXCEPT !.pastes = Append(@, [x |-> x, y |-> y, img |-> src, mask |-> TRUE])]

\* im.crop((x0, y0, x1, y1)): a new image holding that box of im
Crop(im, x0, y0, x1, y1) == Paste(NewImage(x1 - x0, y1 - y0), im, -x0, -y0)

BasePixel(b, x, y) ==
    IF b.name = "new" THEN <<"new", 0, 0, 0, 0>> ELSE <<b.name, b.k, x, y, b.a>>

Max(S) == CHOOSE m \in S : \A n \in S : n <= m

\* the pixel of im at (x, y): that of the last paste that covers (x, y) and,
\* when it is masked, is not transparent there; else the pixel im began with
RECURSIVE Pixel(_, _, _)
Pixel(im, x, y) ==
    LET Writes(n) ==
            LET p == im.pastes[n]
            IN  /\ InBox(BoxAt(p.x, p.y, p.img.w, p.img.h), x, y)
                /\ p.mask => Pixel(p.img, x - p.x, y - p.y)[5] # 0
        hits == {n \in 1 .. Len(im.pastes) : Writes(n)}
    IN  IF hits = {} THEN BasePixel(im.base, x, y)
        ELSE LET p == im.pastes[Max(hits)]
             IN  Pixel(p.img, x - p.x, y - p.y)

(***************************************************************************)
(* main(): the bulk regions.                                               *)
(***************************************************************************)
\* get_char_image(): the drawn characters, outlined as one image
get_char_image ==
    Rendered("chars", 0, TILE_WIDTH * TILES_PER_ROW, TILE_HEIGHT * TILE_ROW_COUNT, 255)

\* get_arrows_image(): sixteen rotations of the arrow icon in one row
get_arrows_image ==
    LET blank == NewImage(TILE_WIDTH * TILES_PER_ROW, TILE_HEIGHT)
        Rotated(i) == Rendered("arrow", i, TILE_WIDTH, TILE_HEIGHT, 255)
    IN  [blank EXCEPT !.pastes =
            [n \in 1 .. TILES_PER_ROW |->
                [x |-> (n - 1) * TILE_WIDTH, y |-> 0, img |-> Rotated(n - 1),
                 mask |-> FALSE]]]

HORIZON_WIDTH == 9

\* get_horizon_image(): nine outlined line tiles in one row
get_horizon_image ==
    LET blank == NewImage(TILE_WIDTH * HORIZON_WIDTH, TILE_HEIGHT)
        LineTile(i) == Rendered("horizon", i, TILE_WIDTH, TILE_HEIGHT, 255)
    IN  [blank EXCEPT !.pastes =
            [n \in 1 .. HORIZON_WIDTH |->
                [x |-> (n - 1) * TILE_WIDTH, y |-> 0, img |-> LineTile(n - 1),
                 mask |-> FALSE]]]

LOGO_TILE_WIDTH == 24
LOGO_TILE_HEIGHT == 4
LogoTileCount == LOGO_TILE_WIDTH * LOGO_TILE_HEIGHT
LogoTileRows == LogoTileCount \div TILES_PER_ROW

\* get_logo_image's logo_img after apply_outline: the whole logo, 24 x 4 tiles
LogoSource ==
    Rendered("logo", 0, LOGO_TILE_WIDTH * TILE_WIDTH, LOGO_TILE_HEIGHT * TILE_HEIGHT, 255)

LogoTileIndexByColumns(x, y) == y * TILES_PER_ROW + x

\* tile_index = y * logo_tile_width + x
LogoTileIndex(x, y) == y * LOGO_TILE_WIDTH + x

\* the paste of block n of the loops `for y ... for x ...`, n = 1 for x = y = 0
LogoBlockPaste(n) ==
    LET y == (n - 1) \div LOGO_TILE_WIDTH
        x == (n - 1) % LOGO_TILE_WIDTH
        logo_this_tile ==
            Crop(LogoSource, x * TILE_WIDTH, y * TILE_HEIGHT,
                 (x + 1) * TILE_WIDTH, (y + 1) * TILE_HEIGHT)
        tile_index == LogoTileIndex(x, y)
    IN  [x |-> TileX(tile_index), y |-> TileY(tile_index),
         img |-> logo_this_tile, mask |-> FALSE]

\* get_logo_image(): the logo cut into 96 tiles, pasted in loop order into a
\* 16-column image
get_logo_image ==
    LET logo_tiled_img == NewImage(TILE_WIDTH * TILES_PER_ROW, TILE_HEIGHT * LogoTileRows)
    IN  [logo_tiled_img EXCEPT !.pastes = [n \in 1 .. LogoTileCount |-> LogoBlockPaste(n)]]

\* the rows of tiles of betaflight_template.png
TemplateRows == (MaxIndex + 1) \div TILES_PER_ROW

\* Image.open("betaflight_template.png")
TemplateImage(a) ==
    Rendered("template", 0, TILE_WIDTH * TILES_PER_ROW, TILE_HEIGHT * TemplateRows, a)

\* the opaque RGB overlay, Image.open("template_overlay.png") lightened
OverlayImage ==
    Rendered("overlay", 0, TILE_WIDTH * TILES_PER_ROW, TILE_HEIGHT * TemplateRows, 255)

(***************************************************************************)
(* main(): the catalog ICONS.  An entry is [kind, index, arg, ink]: the    *)
(* class, the tile index, the enum argument of the class ("" when it has   *)
(* none) and the alpha its rendering has at the sampled pixels.            *)
(***************************************************************************)
IconIndexes == {18, 36, 141}
InkAlphas == {0, 255}

Entries ==
    [kind : {"IconEmpty"}, index : IconIndexes, arg : {""}, ink : {0}]
    \cup [kind : {"IconStickOverlay"}, index : IconIndexes,
          arg : {"high", "top"}, ink : InkAlphas]
    \cup [kind : {"IconBarCap"}, index : IconIndexes,
          arg : {"left", "middle"}, ink : InkAlphas]
    \cup [kind : {"IconBar"}, index : IconIndexes,
          arg : {"full", "quarter"}, ink : InkAlphas]

\* the values the classes' Literal annotations name
Positions == {"high", "middle", "low"}
Sides == {"left", "right"}
Sections == {"full", "half_full", "empty", "end"}

\* generate() raises ValueError: the `else` of IconStickOverlay and of IconBarCap;
\* IconBar.generate has no `else`
Raises(e) ==
    \/ e.kind = "IconStickOverlay" /\ e.arg \notin Positions
    \/ e.kind = "IconBarCap" /\ e.arg \notin Sides

\* what IconBar.generate draws for a section: the fill of the section, if the
\* section is one of the four, and always the two lines
BarShapes(section) ==
    IF section = "full" THEN "IconBar full + lines"
    ELSE IF section = "half_full" THEN "IconBar half + lines"
    ELSE IF section = "empty" THEN "IconBar lines"
    ELSE IF section = "end" THEN "IconBar end + lines"
    ELSE "IconBar lines"

\* icon.generate() of entry k of the catalog, when it does not raise
Generate(e, k) ==
    IF e.kind = "IconEmpty" THEN NewImage(TILE_WIDTH, TILE_HEIGHT)
    ELSE IF e.kind = "IconBar"
        THEN Rendered(BarShapes(e.arg), k, TILE_WIDTH, TILE_HEIGHT, e.ink)
    ELSE Rendered(e.kind, k, TILE_WIDTH, TILE_HEIGHT, e.ink)

(***************************************************************************)
(* Spec: main().                                                           *)
(***************************************************************************)
TemplateAlphas == {0, 255}

Init ==
    /\ pc = "start"
    /\ tmplAlpha \in TemplateAlphas
    /\ out = TemplateImage(tmplAlpha)
    /\ icons = <<>>
    /\ logo_img = <<>>
    /\ preview = <<>>
    /\ written = <<>>
    /\ IdlePlace
    /\ IdleOutline

\* chars_img = get_char_image(); out.paste(chars_img, (0, TILE_HEIGHT * 2))
PasteChars ==
    /\ pc = "start"
    /\ out' = Paste(out, get_char_image, 0, TILE_HEIGHT * 2)
    /\ pc' = "chars"
    /\ UNCHANGED <<tmplAlpha, icons, logo_img, preview, written, placeVars, outlineVars>>

\* arrows_img = get_arrows_image(); out.paste(arrows_img, (0, TILE_HEIGHT * 6))
PasteArrows ==
    /\ pc = "chars"
    /\ out' = Paste(out, get_arrows_image, 0, TILE_HEIGHT * 6)
    /\ pc' = "arrows"
    /\ UNCHANGED <<tmplAlpha, icons, logo_img, preview, written, placeVars, outlineVars>>

\* horizon_img = get_horizon_image(); out.paste(horizon_img, (0, TILE_HEIGHT * 8))
PasteHorizon ==
    /\ pc = "arrows"
    /\ out' = Paste(out, get_horizon_image, 0, TILE_HEIGHT * 8)
    /\ pc' = "horizon"
    /\ UNCHANGED <<tmplAlpha, icons, logo_img, preview, written, placeVars, outlineVars>>

\* logo_img = get_logo_image(); out.paste(logo_img, (0, TILE_HEIGHT * 10))
PasteLogo ==
    /\ pc = "horizon"
    /\ logo_img' = get_logo_image
    /\ out' = Paste(out, logo_img', 0, TILE_HEIGHT * 10)
    /\ pc' = "icons"
    /\ UNCHANGED <<tmplAlpha, icons, preview, written, placeVars, outlineVars>>

\* one turn of `for icon in ICONS` whose generate() returns: the paste at the
\* icon's tile
PasteIcon ==
    /\ pc = "icons"
    /\ Len(icons) < MaxIcons
    /\ \E e \in Entries :
        /\ ~Raises(e)
        /\ LET icon_img == Generate(e, Len(icons) + 1)
           IN  /\ out' = Paste(out, icon_img, TileX(e.index), TileY(e.index))
               /\ icons' = Append(icons, [entry |-> e, img |-> icon_img])
    /\ UNCHANGED <<pc, tmplAlpha, logo_img, preview, written, placeVars, outlineVars>>

\* one turn of the loop whose generate() raises: main() ends with the exception
IconRaises ==
    /\ pc = "icons"
    /\ Len(icons) < MaxIcons
    /\ \E e \in Entries :
        /\ Raises(e)
        /\ icons' = Append(icons, [entry |-> e, img |-> <<>>])
    /\ pc' = "aborted"
    /\ UNCHANGED <<tmplAlpha, out, logo_img, preview, written, placeVars, outlineVars>>

\* the loop is over: preview = out.copy(); overlay.paste(preview, (0, 0), preview);
\* preview = overlay
ComposePreview ==
    /\ pc = "icons"
    /\ preview' = PasteWithMask(OverlayImage, out, 0, 0)
    /\ pc' = "composed"
    /\ UNCHANGED <<tmplAlpha, out, icons, logo_img, written, placeVars, outlineVars>>

\* out.save("template.png")
SaveTemplate ==
    /\ pc = "composed"
    /\ written' = Append(written, [name |-> "template.png", image |-> out])
    /\ pc' = "saved"
    /\ UNCHANGED <<tmplAlpha, out, icons, logo_img, preview, placeVars, outlineVars>>

\* preview.save("preview.png")
SavePreview ==
    /\ pc = "saved"
    /\ written' = Append(written, [name |-> "preview.png", image |-> preview])
    /\ pc' = "done"
    /\ UNCHANGED <<tmplAlpha, out, icons, logo_img, preview, placeVars, outlineVars>>

Next ==
    \/ PasteChars
    \/ PasteArrows
    \/ PasteHorizon
    \/ PasteLogo
    \/ PasteIcon
    \/ IconRaises
    \/ ComposePreview
    \/ SaveTemplate
    \/ SavePreview

Spec == Init /\ [][Next]_vars

(***************************************************************************)
(* Claims about main() (Spec).                                             *)
(***************************************************************************)
\* the pixels of a tile the claims look at: its four corners and its centre
TilePts ==
    { <<0, 0>>, <<TILE_WIDTH - 1, 0>>, <<0, TILE_HEIGHT - 1>>,
      <<TILE_WIDTH - 1, TILE_HEIGHT - 1>>, <<TILE_WIDTH \div 2, TILE_HEIGHT \div 2>> }

\* the atlas pixel under pixel pt of the tile with index i
AtlasPixel(atlas, i, pt) == Pixel(atlas, TileX(i) + pt[1], TileY(i) + pt[2])

\* a step of the loop over ICONS that pasted an icon
IconPasted == Len(icons') = Len(icons) + 1 /\ pc' = "icons"

\* C2 as stated: pasting a tile is alpha-aware: where the pasted tile image is
\* fully transparent (alpha 0) the atlas pixel keeps the value it had, so
\* at least the alpha it had.
C2_TransparentSourceKeepsAtlas ==
    [][IconPasted =>
        LET icon == icons'[Len(icons')]
        IN  \A pt \in TilePts :
                Pixel(icon.img, pt[1], pt[2])[5] = 0 =>
                    AtlasPixel(out', icon.entry.index, pt)[5]
                        = AtlasPixel(out, icon.entry.index, pt)[5]]_vars

\* C2 amended: pasting a tile replaces every pixel of the tile's rectangle by
\* the pixel of the tile image, whatever its alpha: under a fully transparent
\* pixel of the tile image the atlas becomes fully transparent.
C2_PasteReplacesEveryPixel ==
    [][IconPasted =>
        LET icon == icons'[Len(icons')]
        IN  \A pt \in TilePts :
                AtlasPixel(out', icon.entry.index, pt) = Pixel(icon.img, pt[1], pt[2])]_vars

\* IconEmpty(18) was pasted on an opaque template: the tile is now transparent
C2_Witness ==
    /\ tmplAlpha = 255
    /\ Len(icons) = 1
    /\ icons[1].entry.kind = "IconEmpty"
    /\ icons[1].entry.index = 18
    /\ pc = "icons"
    /\ \A pt \in TilePts : AtlasPixel(out, 18, pt)[5] = 0

\* the bulk images, in the order main() pastes them
BulkImages == <<get_char_image, get_arrows_image, get_horizon_image, get_logo_image>>

\* the last entry of the catalog read so far that declares index i
LastWith(i) == Max({n \in 1 .. Len(icons) : icons[n].entry.index = i})

\* C3: the four bulk regions are pasted first and in order, then the catalog
\* icons in catalog order; every tile whose index the catalog declares holds
\* the image of the last entry with that index, also inside a bulk region, and
\* no bulk paste comes after an icon's.
C3_LaterPasteWins ==
    pc \in {"icons", "composed", "saved", "done"} =>
        /\ Len(out.pastes) = Len(BulkImages) + Len(icons)
        /\ \A n \in 1 .. Len(BulkImages) : out.pastes[n].img = BulkImages[n]
        /\ \A n \in 1 .. Len(icons) :
            /\ out.pastes[Len(BulkImages) + n].img = icons[n].img
            /\ \A pt \in TilePts :
                AtlasPixel(out, icons[n].entry.index, pt)
                    = Pixel(icons[LastWith(icons[n].entry.index)].img, pt[1], pt[2])

\* the build is done with two entries for index 36, inside the character rows:
\* the tile holds the second entry's image, not the first's nor a character
C3_Witness ==
    /\ pc = "done"
    /\ Len(icons) = 2
    /\ icons[1].entry.index = 36 /\ icons[2].entry.index = 36
    /\ icons[1].entry.kind = "IconBar" /\ icons[2].entry.kind = "IconBarCap"
    /\ AtlasPixel(out, 36, <<0, 0>>) = <<"IconBarCap", 2, 0, 0, icons[2].entry.ink>>

EnumRecognized(e) ==
    /\ e.kind = "IconStickOverlay" => e.arg \in Positions
    /\ e.kind = "IconBarCap" => e.arg \in Sides
    /\ e.kind = "IconBar" => e.arg \in Sections

\* C4 as stated: when a catalog entry has an unrecognized enum value or two
\* entries declare the same index, the build aborts before template.png or
\* preview.png is written.
C4_ConfigurationErrorsAreFatal ==
    written # <<>> =>
        /\ \A n \in 1 .. Len(icons) : EnumRecognized(icons[n].entry)
        /\ \A n, m \in 1 .. Len(icons) :
            n # m => icons[n].entry.index # icons[m].entry.index

\* C7: get_logo_image is a lossless retiling: block (x, y) of the 24 x 4-tile
\* logo is read back, pixel for pixel, from grid slot y * 24 + x of the
\* 16-column image, no two blocks share a slot and each of the 96 slots of the
\* 16 x 6 grid holds exactly one block.
C7_LogoRoundTrip ==
    (pc = "icons" /\ icons = <<>>) =>
        /\ \A y \in 0 .. 3 : \A x \in 0 .. 23 : \A pt \in TilePts :
            Pixel(logo_img, ((y * 24 + x) % 16) * 36 + pt[1],
                            ((y * 24 + x) \div 16) * 54 + pt[2])
                = Pixel(LogoSource, x * 36 + pt[1], y * 54 + pt[2])
        /\ Len(logo_img.pastes) = 96
        /\ \A slot \in 0 .. 95 :
            Cardinality({n \in 1 .. Len(logo_img.pastes) :
                /\ logo_img.pastes[n].x = (slot % 16) * 36
                /\ logo_img.pastes[n].y = (slot \div 16) * 54}) = 1

\* get_logo_image has returned: the last block, (23, 3), is in the last slot,
\* column 15 of row 5, and block (16, 0) wrapped to the start of row 1
C7_Witness ==
    /\ pc = "icons"
    /\ Pixel(logo_img, 15 * 36, 5 * 54) = <<"logo", 0, 23 * 36, 3 * 54, 255>>
    /\ Pixel(logo_img, 0, 54) = <<"logo", 0, 16 * 36, 0, 255>>

(***************************************************************************)
(* Claims about the placement (SpecPlace).                                 *)
(***************************************************************************)

\* C1: with 16 columns and 36x54 tiles, the tile with index i is pasted at the
\* rectangle with top-left corner ((i mod 16)*36, (i div 16)*54) and size 36x54,
\* and that rectangle shares no pixel with the rectangle of any other index.
C1_TileRegions ==
    box # <<>> =>
        /\ box = << (index % 16) * 36, (index \div 16) * 54,
                    (index % 16) * 36 + 36, (index \div 16) * 54 + 54 >>
        /\ \A j \in 0 .. MaxIndex : j # index => ~Overlap(box, TileBox(j))

\* index 36, the first tile of row 2, column 4, has been placed
C1_Witness == index = 36 /\ box = <<144, 108, 180, 162>>

\* C8 as stated: index 0 is placed at (0, 0), index 17 at (36, 54) and index
\* 159 at (252, 540).
C8_PlacementExamples ==
    box # <<>> =>
        /\ index = 0 => <<box[1], box[2]>> = <<0, 0>>
        /\ index = 17 => <<box[1], box[2]>> = <<36, 54>>
        /\ index = 159 => <<box[1], box[2]>> = <<252, 540>>

\* C8 amended: index 0 is placed at (0, 0), index 17 at (36, 54) and index 159
\* at ((159 mod 16) * 36, (159 div 16) * 54) = (540, 486).
C8_PlacementExamplesAmended ==
    box # <<>> =>
        /\ index = 0 => <<box[1], box[2]>> = <<0, 0>>
        /\ index = 17 => <<box[1], box[2]>> = <<36, 54>>
        /\ index = 159 => <<box[1], box[2]>> = <<540, 486>>

\* index 159, the last tile the catalog declares, has been placed
C8_Witness == index = 159 /\ box = <<540, 486, 576, 540>>

(***************************************************************************)
(* Claims about apply_outline (SpecOutline).                               *)
(***************************************************************************)
Foreground(im, p) == Alpha(im[p]) > 100

NoForeground(im) == \A p \in Pts : ~Foreground(im, p)

\* C5: apply_outline never alters a foreground pixel: where the input's alpha is
\* greater than 100 the output pixel equals the input pixel, colour and alpha.
C5_ForegroundUnaltered ==
    \A k \in 1 .. Len(passes) : \A p \in Pts :
        Foreground(passes[k].img, p) => passes[k].out[p] = passes[k].img[p]

\* a half-transparent foreground pixel beside an opaque one went through a pass
\* that changed other pixels
C5_Witness ==
    /\ Len(passes) >= 1
    /\ passes[1].out # passes[1].img
    /\ \E p, q \in Pts :
        /\ passes[1].img[p] = FaintInk
        /\ passes[1].img[q] = White
        /\ (p[1] - q[1]) * (p[1] - q[1]) + (p[2] - q[2]) * (p[2] - q[2]) = 1
        /\ passes[1].out[p] = FaintInk

\* C6 as stated: on an image with no foreground pixel the distance field is 255
\* everywhere, the glow layer is transparent everywhere and the output equals
\* the input at every pixel, pixels of alpha 0 and non-zero colour included.
C6_AllBackgroundIdentical ==
    \A k \in 1 .. Len(passes) :
        NoForeground(passes[k].img) =>
            /\ \A p \in Pts : passes[k].euclid[p] = 255
            /\ \A p \in Pts : Alpha(passes[k].outline[p]) = 0
            /\ passes[k].out = passes[k].img

\* C6 amended: on an image with no foreground pixel the distance field is 255
\* everywhere, the glow layer is transparent black everywhere, the output equals
\* the input at every pixel of alpha greater than 0 and is transparent black
\* (0, 0, 0, 0) at every pixel of alpha 0, whatever colour the input has there.
C6_AllBackgroundVisibleIdentical ==
    \A k \in 1 .. Len(passes) :
        NoForeground(passes[k].img) =>
            /\ \A p \in Pts : passes[k].euclid[p] = 255
            /\ \A p \in Pts : passes[k].outline[p] = <<0, 0, 0, 0>>
            /\ \A p \in Pts :
                passes[k].out[p] =
                    IF Alpha(passes[k].img[p]) > 0 THEN passes[k].img[p]
                    ELSE <<0, 0, 0, 0>>

\* an image with no foreground, a pixel of alpha 100 and a white pixel of alpha 0
\* went through a pass that kept the first and cleared the colour of the second
C6_Witness ==
    /\ Len(passes) >= 1
    /\ NoForeground(passes[1].img)
    /\ \E p, q \in Pts :
        /\ passes[1].img[p] = FaintWhite /\ passes[1].out[p] = FaintWhite
        /\ passes[1].img[q] = ClearWhite /\ passes[1].out[q] = Blank

\* the offset from a foreground pixel at which a pixel still gets glow: an
\* active kernel cell nearer than radius + 1
InGlowReach(p, q) ==
    LET dx == q[1] - p[1]
        dy == q[2] - p[2]
    IN  /\ dx \in -4 .. 4 /\ dy \in -4 .. 4
        /\ OCTAGON_PATTERN_9x9[dy + 5][dx + 5] = 1
        /\ dx * dx + dy * dy < 16

NotIdempotentCase(im) ==
    /\ \A p \in Pts : ~Foreground(im, p) => Alpha(im[p]) = 0
    /\ \E p, q \in Pts :
        Foreground(im, p) /\ Alpha(im[q]) = 0 /\ InGlowReach(p, q)

\* C9: on an image whose non-foreground pixels are all fully transparent and
\* that has a foreground pixel with a transparent pixel in its glow reach, the
\* second run of apply_outline gives another image than the first (every glow
\* pixel gets more alpha), and computes the same foreground mask.
C9_NotIdempotent ==
    (Len(passes) = 2 /\ NotIdempotentCase(passes[1].img)) =>
        /\ passes[2].img = passes[1].out
        /\ passes[2].out # passes[1].out
        /\ \A q \in Pts :
            (Alpha(passes[1].img[q]) = 0 /\ Alpha(passes[1].outline[q]) > 0) =>
                Alpha(passes[2].out[q]) > Alpha(passes[1].out[q])
        /\ passes[2].mask = passes[1].mask

\* both runs are done on such an image, and a glow pixel went from alpha 84 to 140
C9_Witness ==
    /\ Len(passes) = 2
    /\ NotIdempotentCase(passes[1].img)
    /\ \E q \in Pts :
        /\ passes[1].img[q] = Blank
        /\ passes[1].out[q] = <<0, 0, 0, 84>>
        /\ passes[2].out[q] = <<0, 0, 0, 140>>

\* the offsets the claim counts for pixel p of mask m: in -4..4, active in the
\* octagon, in bounds, foreground
Qualifying(m, p) ==
    { d \in (-4 .. 4) \X (-4 .. 4) :
        /\ OCTAGON_PATTERN_9x9[d[2] + 5][d[1] + 5] = 1
        /\ <<p[1] + d[1], p[2] + d[2]>> \in Pts
        /\ m[<<p[1] + d[1], p[2] + d[2]>>] # 0 }

SquaredNorm(d) == d[1] * d[1] + d[2] * d[2]

\* C10 as stated: the distance-field value of every pixel is the minimum of
\* dx^2 + dy^2 over the qualifying offsets, the offset (0, 0) included (0 for a
\* foreground pixel), and it is 255 exactly when no offset qualifies.
C10_FieldIsMinimum ==
    opc = "euclid" =>
        \A p \in Pts :
            LET Q == Qualifying(mask, p)
            IN  /\ (euclid[p] = 255) <=> (Q = {})
                /\ Q # {} =>
                    /\ \E d \in Q : euclid[p] = SquaredNorm(d)
                    /\ \A d \in Q : euclid[p] <= SquaredNorm(d)

\* the distance-field values of the pixels of the current field
FieldValues == { euclid[p] : p \in Pts }

\* C11 as stated: every value of every distance field is a squared distance in
\* 0..16 or the sentinel 255.
C11_FieldRange0To16 ==
    opc = "euclid" => FieldValues \subseteq (0 .. 16) \cup {255}

\* C11 amended: every value of every distance field is a squared distance in
\* 0..17 or the sentinel 255; no value between 18 and 254 is ever written.  The
\* active kernel cells (4, 1) and (1, 4), in every sign, have squared norm 17.
C11_FieldRange0To17 ==
    opc = "euclid" => FieldValues \subseteq (0 .. 17) \cup {255}

\* a field that holds 16, 17 and the sentinel: a pixel four columns and one row
\* from its nearest foreground pixel
C11_Witness ==
    /\ opc = "euclid"
    /\ {16, 17, 255} \subseteq FieldValues
    /\ \E p, q \in Pts :
        /\ mask[p] = 255 /\ euclid[q] = 17
        /\ (q[1] - p[1]) * (q[1] - p[1]) = 16
        /\ (q[2] - p[2]) * (q[2] - p[2]) = 1

\* what the claim and its amendment share: the opacity written for the
\* distance-field value d outside the falloff band is 0 for the sentinel, 255
\* up to radius^2 and 0 from (radius + 1)^2 on
OutsideBand(d, v) ==
    /\ d = 255 => v = 0
    /\ d <= 9 => v = 255
    /\ (d >= 16 /\ d # 255) => v = 0

InBand(d) == d > 9 /\ d < 16

\* v is (1 - (sqrt(d) - 3)) * 255 rounded to the nearest integer:
\* 2v - 1 <= 2040 - 510 sqrt(d) <= 2v + 1
IsRounded(d, v) ==
    /\ (2039 - 2 * v) * (2039 - 2 * v) <= 4 * 255 * 255 * d
    /\ 4 * 255 * 255 * d <= (2041 - 2 * v) * (2041 - 2 * v)

\* v is the integer part of (1 - (sqrt(d) - 3)) * 255:
\* v <= 1020 - 255 sqrt(d) < v + 1
IsTruncated(d, v) ==
    /\ (1019 - v) * (1019 - v) < 255 * 255 * d
    /\ 255 * 255 * d <= (1020 - v) * (1020 - v)

\* the opacity is non-increasing in the distance-field value over one pass
NonIncreasing(pass) ==
    \A p, q \in Pts :
        pass.euclid[p] <= pass.euclid[q] => pass.outline_px[p] >= pass.outline_px[q]

\* C12 as stated: the glow opacity before attenuation is 0 for d = 255, 255 for
\* d <= 9, round((1 - (sqrt(d) - 3)) * 255) for 9 < d < 16 and 0 otherwise; it
\* is non-increasing in d, and the rounded values 214 and 101 are written for
\* d = 10 and d = 13.
C12_OpacityRounded ==
    \A k \in 1 .. Len(passes) :
        /\ \A p \in Pts :
            LET d == passes[k].euclid[p]
                v == passes[k].outline_px[p]
            IN  /\ OutsideBand(d, v)
                /\ InBand(d) => IsRounded(d, v)
                /\ d = 10 => v = 214
                /\ d = 13 => v = 101
        /\ NonIncreasing(passes[k])

\* C12 amended: the glow opacity before attenuation is 0 for d = 255, 255 for
\* d <= 9, the integer part of (1 - (sqrt(d) - 3)) * 255 for 9 < d < 16 and 0
\* otherwise; it is non-increasing in d, and the truncated values 213 and 100
\* are written for d = 10 and d = 13.
C12_OpacityTruncated ==
    \A k \in 1 .. Len(passes) :
        /\ \A p \in Pts :
            LET d == passes[k].euclid[p]
                v == passes[k].outline_px[p]
            IN  /\ OutsideBand(d, v)
                /\ InBand(d) => IsTruncated(d, v)
                /\ d = 10 => v = 213
                /\ d = 13 => v = 100
        /\ NonIncreasing(passes[k])

\* a pass whose field holds a value up to 9, 10, 13, one from 16 on and the
\* sentinel, with the opacities 255, 213, 100, 0 and 0 written for them
C12_Witness ==
    /\ Len(passes) >= 1
    /\ \E p1, p2, p3, p4, p5 \in Pts :
        LET d == passes[1].euclid
            v == passes[1].outline_px
        IN  /\ d[p1] <= 9 /\ v[p1] = 255
            /\ d[p2] = 10 /\ v[p2] = 213
            /\ d[p3] = 13 /\ v[p3] = 100
            /\ d[p4] \in {16, 17} /\ v[p4] = 0
            /\ d[p5] = 255 /\ v[p5] = 0

====
